---- MODULE Spec2Model ----
(***************************************************************************)
(* Model of the Sanary dashboard's usage-reconstruction pipeline:          *)
(*   - Dashboard.tsx: fetchData (delta reconstructor, device selector)     *)
(*   - app detail page: subscription and session reconstruction            *)
(*   - activity timeline page: subscription and activity clustering        *)
(***************************************************************************)
EXTENDS Integers, Sequences, FiniteSets, TLC

VARIABLES
    store,           \* document store: (device, date) -> sequence of documents
    selectedDevice,  \* Dashboard state
    selectedDate,
    usageStats,
    deviceStats,
    loading,
    error,
    inflight,        \* keys of the fetchData calls suspended at `await getDocs`
    devices,         \* Dashboard state: the device list
    savedIds,        \* localStorage "sanary_device_ids", NoSavedIds when absent
    devicesFetch,    \* fetchDevices: "pending" at `await getDocs`, then "done" or "failed"
    effectPending,   \* the fetchData effect is scheduled for a selection made by fetchDevices
    listeners,       \* onSnapshot listeners registered with the store
    now,             \* Date.now() as read by the latest snapshot callback
    appParams,       \* AppDetailsPage: route params, Null once unmounted
    appSessions,     \* AppDetailsPage: sessions
    appLoading,      \* AppDetailsPage: loading
    appStats,        \* AppDetailsPage: stats
    activityParams,  \* ActivityTimelinePage: route params, Null once unmounted
    activitySessions,\* ActivityTimelinePage: sessions
    activityLoading  \* ActivityTimelinePage: loading

vars == <<store, selectedDevice, selectedDate, usageStats, deviceStats,
          loading, error, inflight,
          devices, savedIds, devicesFetch, effectPending,
          listeners, now,
          appParams, appSessions, appLoading, appStats,
          activityParams, activitySessions, activityLoading>>

appVars == <<appParams, appSessions, appLoading, appStats>>

activityVars == <<activityParams, activitySessions, activityLoading>>

pageVars == <<listeners, now, appVars, activityVars>>

dashVars == <<selectedDevice, selectedDate, usageStats, deviceStats,
              loading, error, inflight>>

deviceVars == <<devices, savedIds, devicesFetch, effectPending>>

----------------------------------------------------------------------------
(* Values *)

Null == [isNull |-> TRUE]
NoDevice == "<null>"
\* localStorage.getItem("sanary_device_ids") === null
NoSavedIds == <<"<null>">>

Devices == {"d1", "d2"}
Dates == {"2024-05-20", "2024-05-21"}
Today == "2024-05-21"
Keys == Devices \X Dates

Packages == {"a", "b"}
UsageVals == {0, 200000, 32400000}
SnapTimes == {0, 300000}
BatteryVals == {50, 80}
NowVals == {120001, 180001, 240001}

EventTimes == {0, 60000, 120001}
RawEventTypes == {"APP_OPENED", "APP_CLOSED", "SCREEN_ON"}
AppNameOf == ("a" :> <<"C","o","d">>) @@ ("b" :> <<"G","m","a","i","l">>)

MaxSnapshots == 2
MaxDocs == 3
MaxInFlight == 2
MaxEvents == 3
MaxDevices == 2

NoError == ""
DataFetchError == "Data Fetch Error"
DeviceFetchError == "Device Fetch Error"

Max(a, b) == IF a >= b THEN a ELSE b
Min(a, b) == IF a <= b THEN a ELSE b

RECURSIVE SumUsage(_)
SumUsage(apps) ==
    IF apps = <<>> THEN 0
    ELSE apps[1].usageTimeMs + SumUsage(Tail(apps))

SeqsUpTo(S, n) == UNION {[1..k -> S] : k \in 0..n}

DistinctPackages(apps) ==
    \A i, j \in 1..Len(apps) : i # j => apps[i].packageName # apps[j].packageName

AppEntries == [packageName : Packages, usageTimeMs : UsageVals]
AppLists == {l \in SeqsUpTo(AppEntries, Cardinality(Packages)) : DistinctPackages(l)}

UsageDoc(ts, apps) ==
    [id |-> "app_usage_",
     data |-> [timestamp |-> ts, apps |-> apps,
               totalScreenTimeMs |-> SumUsage(apps)]]

\* an app_usage_* document written without an apps list
UsageDocNoApps(ts) ==
    [id |-> "app_usage_", data |-> [timestamp |-> ts, totalScreenTimeMs |-> 0]]

DeviceDoc(ts, b) ==
    [id |-> "device_", data |-> [timestamp |-> ts, batteryLevel |-> b]]

----------------------------------------------------------------------------
(* Dashboard.fetchData: the synchronous computation after `await getDocs` *)

\* (mutant) the snapshots left in delivery order
Unsorted(s) == s

\* Array.prototype.sort is stable: insertion after every element that is <=.
RECURSIVE InsertByTimestamp(_, _)
InsertByTimestamp(s, x) ==
    IF s = <<>> THEN <<x>>
    ELSE IF x.timestamp < s[1].timestamp THEN <<x>> \o s
    ELSE <<s[1]>> \o InsertByTimestamp(Tail(s), x)

RECURSIVE SortByTimestamp(_)
SortByTimestamp(s) ==
    IF Len(s) = 0 THEN <<>>
    ELSE InsertByTimestamp(SortByTimestamp(SubSeq(s, 1, Len(s) - 1)), s[Len(s)])

RECURSIVE AppUsageSnapshots(_)
AppUsageSnapshots(docs) ==
    IF docs = <<>> THEN <<>>
    ELSE IF docs[1].id = "app_usage_"
         THEN <<docs[1].data>> \o AppUsageSnapshots(Tail(docs))
         ELSE AppUsageSnapshots(Tail(docs))

RECURSIVE LatestDeviceFrom(_, _)
LatestDeviceFrom(docs, latestDevice) ==
    IF docs = <<>> THEN latestDevice
    ELSE IF docs[1].id = "device_"
            /\ (latestDevice = Null
                \/ docs[1].data.timestamp > latestDevice.timestamp)
         THEN LatestDeviceFrom(Tail(docs), docs[1].data)
         ELSE LatestDeviceFrom(Tail(docs), latestDevice)

\* (mutant) the last device_* document delivered wins, whatever its timestamp
LastSeenDevice(docs) ==
    LET idx == {i \in 1..Len(docs) : docs[i].id = "device_"}
    IN IF idx = {} THEN Null
       ELSE docs[CHOOSE i \in idx : \A j \in idx : j <= i].data

LatestDevice(docs) == LatestDeviceFrom(docs, Null)

\* appUsageSnapshots.filter(s => s.apps && s.apps.length > 0), after the sort
ValidSnapshots(docs) ==
    SelectSeq(SortByTimestamp(AppUsageSnapshots(docs)),
              LAMBDA s : "apps" \in DOMAIN s /\ Len(s.apps) > 0)

Earliest(docs) == ValidSnapshots(docs)[1]
Latest(docs) == ValidSnapshots(docs)[Len(ValidSnapshots(docs))]

MonitoringDuration(earliest, latest) ==
    Max(0, latest.timestamp - earliest.timestamp)

MaxPossibleUsage(earliest, latest) ==
    MonitoringDuration(earliest, latest) + 60000

\* earliest.apps.find(a => a.packageName === pkg): index of the first match, 0 if none
FindApp(apps, pkg) ==
    IF \E i \in 1..Len(apps) : apps[i].packageName = pkg
    THEN CHOOSE i \in 1..Len(apps) :
            /\ apps[i].packageName = pkg
            /\ \A j \in 1..(i - 1) : apps[j].packageName # pkg
    ELSE 0

\* (mutant) no clamp against the monitoring window
UsageDeltaUnclamped(latestApp, earliest, latest) ==
    LET idx == FindApp(earliest.apps, latestApp.packageName)
    IN IF idx # 0
       THEN LET delta == latestApp.usageTimeMs - earliest.apps[idx].usageTimeMs
            IN IF delta >= 0 THEN delta ELSE latestApp.usageTimeMs
       ELSE latestApp.usageTimeMs

\* (mutant) the baseline is never subtracted
UsageDeltaNoBaseline(latestApp, earliest, latest) ==
    IF latestApp.usageTimeMs > MaxPossibleUsage(earliest, latest)
    THEN MaxPossibleUsage(earliest, latest)
    ELSE latestApp.usageTimeMs

\* (mutant) a negative delta is kept
UsageDeltaNoReset(latestApp, earliest, latest) ==
    LET idx == FindApp(earliest.apps, latestApp.packageName)
        candidate ==
            IF idx # 0
            THEN latestApp.usageTimeMs - earliest.apps[idx].usageTimeMs
            ELSE latestApp.usageTimeMs
    IN IF candidate > MaxPossibleUsage(earliest, latest)
       THEN MaxPossibleUsage(earliest, latest)
       ELSE candidate

UsageDelta(latestApp, earliest, latest) ==
    LET idx == FindApp(earliest.apps, latestApp.packageName)
        candidate ==
            IF idx # 0
            THEN LET delta == latestApp.usageTimeMs - earliest.apps[idx].usageTimeMs
                 IN IF delta >= 0 THEN delta ELSE latestApp.usageTimeMs
            ELSE latestApp.usageTimeMs
    IN IF candidate > MaxPossibleUsage(earliest, latest)
       THEN MaxPossibleUsage(earliest, latest)
       ELSE candidate

ProcessedApps(earliest, latest) ==
    [i \in 1..Len(latest.apps) |->
        [latest.apps[i] EXCEPT !.usageTimeMs = UsageDelta(latest.apps[i], earliest, latest)]]

\* (mutant) the total carried by the latest snapshot
TotalFromSnapshot(latest, processedApps) == latest.totalScreenTimeMs

\* processedApps.reduce((acc, app) => acc + app.usageTimeMs, 0), overriding ...latest
TotalScreenTime(latest, processedApps) == SumUsage(processedApps)

ReconstructedUsage(docs) ==
    LET processedApps == ProcessedApps(Earliest(docs), Latest(docs))
    IN [Latest(docs) EXCEPT !.apps = processedApps,
                            !.totalScreenTimeMs = TotalScreenTime(Latest(docs), processedApps)]

----------------------------------------------------------------------------
(* Dashboard actions *)

\* useEffect([selectedDevice, selectedDate]): fetchData up to `await getDocs`
FetchDataStart(device, date) ==
    IF device = NoDevice \/ date = ""
    THEN UNCHANGED <<usageStats, deviceStats, loading, error, inflight>>
    ELSE /\ loading' = TRUE
         /\ error' = NoError
         /\ usageStats' = Null
         /\ deviceStats' = Null
         /\ inflight' = Append(inflight, <<device, date>>)

\* the <select> lists the entries of devices
SetSelectedDevice(d) ==
    /\ ~effectPending
    /\ \E k \in 1..Len(devices) : devices[k] = d
    /\ d # selectedDevice
    /\ Len(inflight) < MaxInFlight
    /\ selectedDevice' = d
    /\ UNCHANGED <<selectedDate, store, pageVars, deviceVars>>
    /\ FetchDataStart(d, selectedDate)

SetSelectedDate(dt) ==
    /\ ~effectPending
    /\ dt # selectedDate
    /\ Len(inflight) < MaxInFlight
    /\ selectedDate' = dt
    /\ UNCHANGED <<selectedDevice, store, pageVars, deviceVars>>
    /\ FetchDataStart(selectedDevice, dt)

RemoveAt(s, i) == SubSeq(s, 1, i - 1) \o SubSeq(s, i + 1, Len(s))

\* fetchData after getDocs resolved with the documents of the key it was started for
FetchDataResolved(i) ==
    /\ i \in 1..Len(inflight)
    /\ LET docs == store[inflight[i]]
       IN IF docs = <<>>
          THEN /\ loading' = FALSE
               /\ UNCHANGED <<usageStats, deviceStats>>
          ELSE /\ deviceStats' = LatestDevice(docs)
               /\ IF ValidSnapshots(docs) = <<>>
                  THEN usageStats' = Null
                  ELSE usageStats' = ReconstructedUsage(docs)
               /\ loading' = FALSE
    /\ inflight' = RemoveAt(inflight, i)
    /\ UNCHANGED <<error, selectedDevice, selectedDate, store, pageVars, deviceVars>>

\* fetchData when getDocs rejected: catch and finally
FetchDataRejected(i) ==
    /\ i \in 1..Len(inflight)
    /\ error' = DataFetchError
    /\ loading' = FALSE
    /\ inflight' = RemoveAt(inflight, i)
    /\ UNCHANGED <<usageStats, deviceStats, selectedDevice, selectedDate, store, pageVars,
                   deviceVars>>

\* handleAddDevice(id) from the "Add ID..." input, and the effects of the selection
HandleAddDevice(id) ==
    /\ ~effectPending
    /\ id # ""
    /\ Len(devices) < MaxDevices
    /\ devices' = Append(devices, id)
    /\ savedIds' = Append(devices, id)
    /\ selectedDevice' = id
    /\ IF id # selectedDevice
       THEN /\ Len(inflight) < MaxInFlight
            /\ FetchDataStart(id, selectedDate)
       ELSE UNCHANGED <<usageStats, deviceStats, loading, error, inflight>>
    /\ UNCHANGED <<selectedDate, devicesFetch, effectPending, store, pageVars>>

\* Array.from(new Set(ids)): first occurrences, in order
RECURSIVE UniqueIds(_)
UniqueIds(ids) ==
    IF Len(ids) = 0 THEN <<>>
    ELSE LET init == UniqueIds(SubSeq(ids, 1, Len(ids) - 1))
             last == ids[Len(ids)]
         IN IF \E k \in 1..Len(init) : init[k] = last THEN init ELSE Append(init, last)

\* (mutant) the cached identifiers are not loaded when the listing fails
NoFallback(saved, current) == current

\* fetchDevices catch: `if (saved) setDevices(JSON.parse(saved))`
FallbackDevices(saved, current) == IF saved # NoSavedIds THEN saved ELSE current

\* `if (ids.length > 0 && !localStorage.getItem("sanary_selected_device")) setSelectedDevice(ids[0])`
\* (the persisted selection is absent exactly when selectedDevice is null: it is
\* loaded at mount and written by the persist effect on every selection)
SelectFirstDevice(ids) ==
    IF Len(ids) > 0 /\ selectedDevice = NoDevice
    THEN /\ selectedDevice' = ids[1]
         /\ effectPending' = TRUE
    ELSE UNCHANGED <<selectedDevice, effectPending>>

\* fetchDevices after getDocs resolved with the identifiers the server lists
FetchDevicesResolved(fetchedIds) ==
    /\ devicesFetch = "pending"
    /\ devicesFetch' = "done"
    /\ LET uniqueIds == UniqueIds(fetchedIds \o (IF savedIds # NoSavedIds THEN savedIds ELSE <<>>))
       IN /\ devices' = uniqueIds
          /\ SelectFirstDevice(uniqueIds)
    /\ UNCHANGED <<savedIds, selectedDate, usageStats, deviceStats, loading, error,
                   inflight, store, pageVars>>

\* fetchDevices when getDocs rejected: the catch block
FetchDevicesRejected ==
    /\ devicesFetch = "pending"
    /\ devicesFetch' = "failed"
    /\ devices' = FallbackDevices(savedIds, devices)
    /\ IF savedIds # NoSavedIds
       THEN SelectFirstDevice(savedIds)
       ELSE UNCHANGED <<selectedDevice, effectPending>>
    /\ error' = DeviceFetchError
    /\ UNCHANGED <<savedIds, selectedDate, usageStats, deviceStats, loading,
                   inflight, store, pageVars>>

\* the fetchData effect run after the render that committed fetchDevices' selection
FetchDataEffect ==
    /\ effectPending
    /\ effectPending' = FALSE
    /\ Len(inflight) < MaxInFlight
    /\ FetchDataStart(selectedDevice, selectedDate)
    /\ UNCHANGED <<selectedDevice, selectedDate, devices, savedIds, devicesFetch,
                   store, pageVars>>

\* startup finished with no device known: the server listed none, nothing is cached
DevicesIdle ==
    /\ devices = <<>>
    /\ savedIds = NoSavedIds
    /\ devicesFetch = "done"
    /\ effectPending = FALSE

DashInit ==
    /\ selectedDevice = NoDevice
    /\ selectedDate = Today
    /\ usageStats = Null
    /\ deviceStats = Null
    /\ loading = FALSE
    /\ error = NoError
    /\ inflight = <<>>
    /\ DevicesIdle

----------------------------------------------------------------------------
(* Usage events and the onSnapshot listeners of the two detail pages *)

\* endTime: null
NullTime == -1

EventsDoc(events) == [id |-> "events_", data |-> [events |-> events]]

\* an events_* document without an events array
MalformedEventsDoc == [id |-> "events_", data |-> [timestamp |-> 0]]

\* (mutant) an unrecognized event type is read as a close
CoerceAsClosed(e) ==
    [packageName |-> e.packageName,
     appName |-> e.appName,
     eventType |-> IF e.eventType = "APP_OPENED" THEN e.eventType ELSE "APP_CLOSED",
     timestamp |-> e.timestamp]

\* e.eventType === "APP_OPENED" || e.eventType === "APP_CLOSED" ? e.eventType : "UNKNOWN"
CoerceEvent(e) ==
    [packageName |-> e.packageName,
     appName |-> e.appName,
     eventType |-> IF e.eventType = "APP_OPENED" \/ e.eventType = "APP_CLOSED"
                   THEN e.eventType ELSE "UNKNOWN",
     timestamp |-> e.timestamp]

\* snapshot.forEach: the events of every events_* document that carries an array
RECURSIVE AllEvents(_)
AllEvents(docs) ==
    IF docs = <<>> THEN <<>>
    ELSE IF docs[1].id = "events_" /\ "events" \in DOMAIN docs[1].data
         THEN [i \in 1..Len(docs[1].data.events) |-> CoerceEvent(docs[1].data.events[i])]
              \o AllEvents(Tail(docs))
         ELSE AllEvents(Tail(docs))

Listener(page, deviceId, date, packageName) ==
    [page |-> page, deviceId |-> deviceId, date |-> date, packageName |-> packageName]

\* (mutant) the effect returns no cleanup: the listener stays registered
KeepSubscribed(ls, page) == ls

\* unsubscribe(): the listener the page's current effect registered is removed
Unsubscribe(ls, page) ==
    LET idx == {i \in 1..Len(ls) : ls[i].page = page}
    IN IF idx = {} THEN ls
       ELSE RemoveAt(ls, CHOOSE i \in idx : \A j \in idx : j <= i)

\* onSnapshot without an error callback: the store drops a failed listener
ListenerFailed(i) ==
    /\ i \in 1..Len(listeners)
    /\ listeners' = RemoveAt(listeners, i)
    /\ UNCHANGED <<store, dashVars, deviceVars, now, appVars, activityVars>>

----------------------------------------------------------------------------
(* AppDetailsPage: session reconstruction *)

AppEvents(allEvents, packageName) ==
    SortByTimestamp(SelectSeq(allEvents, LAMBDA e : e.packageName = packageName))

ClosedSession(currentStart, event) ==
    [startTime |-> currentStart.timestamp,
     endTime |-> event.timestamp,
     durationMs |-> event.timestamp - currentStart.timestamp,
     isOngoing |-> FALSE]

\* (mutant) a close met while no open is pending is taken as the pending start
RECURSIVE WalkDanglingClose(_, _, _)
WalkDanglingClose(events, sessions, currentStart) ==
    IF events = <<>> THEN <<sessions, currentStart>>
    ELSE LET event == Head(events)
         IN IF event.eventType \in {"APP_OPENED", "APP_CLOSED"} /\ currentStart = Null
            THEN WalkDanglingClose(Tail(events), sessions, event)
            ELSE IF event.eventType = "APP_OPENED"
            THEN WalkDanglingClose(Tail(events),
                                   Append(sessions, ClosedSession(currentStart, event)),
                                   event)
            ELSE IF event.eventType = "APP_CLOSED"
            THEN WalkDanglingClose(Tail(events),
                                   Append(sessions, ClosedSession(currentStart, event)),
                                   Null)
            ELSE WalkDanglingClose(Tail(events), sessions, currentStart)

\* (mutant) an open met while another open is pending is dropped
RECURSIVE WalkFirstOpenKept(_, _, _)
WalkFirstOpenKept(events, sessions, currentStart) ==
    IF events = <<>> THEN <<sessions, currentStart>>
    ELSE LET event == Head(events)
         IN IF event.eventType = "APP_OPENED"
            THEN WalkFirstOpenKept(Tail(events), sessions,
                                   IF currentStart # Null THEN currentStart ELSE event)
            ELSE IF event.eventType = "APP_CLOSED" /\ currentStart # Null
            THEN WalkFirstOpenKept(Tail(events),
                                   Append(sessions, ClosedSession(currentStart, event)),
                                   Null)
            ELSE WalkFirstOpenKept(Tail(events), sessions, currentStart)

\* the for loop over appEvents: <<reconstructedSessions, currentStart>> after it
RECURSIVE WalkEvents(_, _, _)
WalkEvents(events, sessions, currentStart) ==
    IF events = <<>> THEN <<sessions, currentStart>>
    ELSE LET event == Head(events)
         IN IF event.eventType = "APP_OPENED"
            THEN WalkEvents(Tail(events),
                            IF currentStart # Null
                            THEN Append(sessions, ClosedSession(currentStart, event))
                            ELSE sessions,
                            event)
            ELSE IF event.eventType = "APP_CLOSED"
            THEN IF currentStart # Null
                 THEN WalkEvents(Tail(events),
                                 Append(sessions, ClosedSession(currentStart, event)),
                                 Null)
                 ELSE WalkEvents(Tail(events), sessions, currentStart)
            ELSE WalkEvents(Tail(events), sessions, currentStart)

\* (mutant) a pending open is capped at one hour on the current day too
PendingCapped(currentStart, isToday, clock) ==
    [startTime |-> currentStart.timestamp,
     endTime |-> currentStart.timestamp + 3600000,
     durationMs |-> 3600000,
     isOngoing |-> FALSE]

\* (mutant) a pending open of a past day is closed at the time of reading
PendingUncapped(currentStart, isToday, clock) ==
    [startTime |-> currentStart.timestamp,
     endTime |-> IF isToday THEN NullTime ELSE clock,
     durationMs |-> clock - currentStart.timestamp,
     isOngoing |-> isToday]

\* (mutant) a pending open is reported as ongoing whatever the day
PendingOngoing(currentStart, isToday, clock) ==
    [startTime |-> currentStart.timestamp,
     endTime |-> NullTime,
     durationMs |-> clock - currentStart.timestamp,
     isOngoing |-> TRUE]

\* the session pushed for an open left pending at the end of the stream
PendingSession(currentStart, isToday, clock) ==
    IF isToday
    THEN [startTime |-> currentStart.timestamp,
          endTime |-> NullTime,
          durationMs |-> clock - currentStart.timestamp,
          isOngoing |-> TRUE]
    ELSE [startTime |-> currentStart.timestamp,
          endTime |-> currentStart.timestamp + 3600000,
          durationMs |-> 3600000,
          isOngoing |-> FALSE]

ReconstructedSessions(appEvents, isToday, clock) ==
    LET walked == WalkEvents(appEvents, <<>>, Null)
    IN IF walked[2] # Null
       THEN Append(walked[1], PendingSession(walked[2], isToday, clock))
       ELSE walked[1]

\* (mutant) a session of exactly one minute is kept
IsMeaningfulInclusive(s) == s.durationMs >= 60000

IsMeaningfulSession(s) == s.durationMs > 60000

MeaningfulSessions(sessions) == SelectSeq(sessions, IsMeaningfulSession)

\* (mutant) the list left in chronological order
Chronological(s) == s

Reverse(s) == [i \in 1..Len(s) |-> s[Len(s) + 1 - i]]

RECURSIVE TotalDuration(_)
TotalDuration(sessions) ==
    IF sessions = <<>> THEN 0
    ELSE sessions[1].durationMs + TotalDuration(Tail(sessions))

\* new Date().toISOString().split('T')[0] === date
IsToday(date) == Today = date

\* the list handed to setSessions
PublishedSessions(docs, packageName, date, clock) ==
    Reverse(MeaningfulSessions(
        ReconstructedSessions(AppEvents(AllEvents(docs), packageName), IsToday(date), clock)))

\* useEffect([deviceId, date, packageName]) body
AppSubscribe(ls, params) ==
    IF params.deviceId = "" \/ params.date = "" \/ params.packageName = ""
    THEN /\ listeners' = ls
         /\ UNCHANGED appLoading
    ELSE /\ appLoading' = TRUE
         /\ listeners' = Append(ls, Listener("app", params.deviceId, params.date,
                                              params.packageName))

\* the route params change: cleanup of the previous effect, then the effect again
AppNavigate(params) ==
    /\ appParams # Null
    /\ params # appParams
    /\ appParams' = params
    /\ AppSubscribe(Unsubscribe(listeners, "app"), params)
    /\ UNCHANGED <<store, dashVars, deviceVars, now, appSessions, appStats, activityVars>>

\* the page is disposed: cleanup of the effect
AppUnmount ==
    /\ appParams # Null
    /\ appParams' = Null
    /\ listeners' = Unsubscribe(listeners, "app")
    /\ UNCHANGED <<store, dashVars, deviceVars, now, appSessions, appLoading, appStats, activityVars>>

\* the onSnapshot callback of listener i
AppSnapshot(i) ==
    /\ i \in 1..Len(listeners)
    /\ listeners[i].page = "app"
    /\ \E clock \in NowVals :
        LET l == listeners[i]
            docs == store[<<l.deviceId, l.date>>]
            appEvents == AppEvents(AllEvents(docs), l.packageName)
            published == PublishedSessions(docs, l.packageName, l.date, clock)
        IN /\ now' = clock
           /\ appSessions' = published
           /\ appStats' =
                [appName |-> IF Len(appEvents) > 0 THEN appEvents[1].appName
                             ELSE appStats.appName,
                 totalDuration |-> TotalDuration(published),
                 sessionCount |-> Len(published),
                 avgSessionDuration |->
                     IF Len(published) # 0
                     THEN <<TotalDuration(published), Len(published)>>
                     ELSE <<0, 1>>]
           /\ appLoading' = FALSE
    /\ UNCHANGED <<store, dashVars, deviceVars, listeners, appParams, activityVars>>

\* AppDetailsPage mounted under params, its effect run once
AppInit(params) ==
    /\ appParams = params
    /\ appSessions = <<>>
    /\ appLoading = TRUE
    /\ appStats = [appName |-> <<params.packageName>>,   \* the one-letter package name
                   totalDuration |-> 0,
                   sessionCount |-> 0, avgSessionDuration |-> <<0, 1>>]

\* the app detail route is not mounted
AppIdle ==
    /\ appParams = Null
    /\ appSessions = <<>>
    /\ appLoading = TRUE
    /\ appStats = Null

----------------------------------------------------------------------------
(* ActivityTimelinePage: activity clustering *)
(* Display names are sequences of characters, so that toLowerCase and includes *)
(* are computed.                                                             *)

UpperToLower ==
    ("A" :> "a") @@ ("B" :> "b") @@ ("C" :> "c") @@ ("D" :> "d") @@ ("E" :> "e") @@
    ("F" :> "f") @@ ("G" :> "g") @@ ("H" :> "h") @@ ("I" :> "i") @@ ("J" :> "j") @@
    ("K" :> "k") @@ ("L" :> "l") @@ ("M" :> "m") @@ ("N" :> "n") @@ ("O" :> "o") @@
    ("P" :> "p") @@ ("Q" :> "q") @@ ("R" :> "r") @@ ("S" :> "s") @@ ("T" :> "t") @@
    ("U" :> "u") @@ ("V" :> "v") @@ ("W" :> "w") @@ ("X" :> "x") @@ ("Y" :> "y") @@
    ("Z" :> "z")

ToLowerCase(name) ==
    [i \in 1..Len(name) |->
        IF name[i] \in DOMAIN UpperToLower THEN UpperToLower[name[i]] ELSE name[i]]

Includes(str, sub) ==
    \E i \in 0..(Len(str) - Len(sub)) : SubSeq(str, i + 1, i + Len(sub)) = sub

GameKeywords ==
    {<<"p","u","b","g">>, <<"c","o","d">>, <<"g","a","m","e">>, <<"c","l","a","s","h">>}
SocialKeywords ==
    {<<"w","h","a","t","s","a","p","p">>, <<"i","n","s","t","a","g","r","a","m">>,
     <<"s","n","a","p","c","h","a","t">>, <<"t","e","l","e","g","r","a","m">>}
ProductivityKeywords ==
    {<<"d","o","c","s">>, <<"s","h","e","e","t","s">>, <<"m","a","i","l">>,
     <<"s","l","a","c","k">>}

\* (mutant) the Productivity keywords are tried before the Game and Social ones
inferCategoryProductivityFirst(dominantAppName) ==
    LET lower == ToLowerCase(dominantAppName)
    IN IF \E k \in ProductivityKeywords : Includes(lower, k) THEN "Productivity"
       ELSE IF \E k \in GameKeywords : Includes(lower, k) THEN "Game"
       ELSE IF \E k \in SocialKeywords : Includes(lower, k) THEN "Social"
       ELSE "General"

inferCategory(dominantAppName) ==
    LET lower == ToLowerCase(dominantAppName)
    IN IF \E k \in GameKeywords : Includes(lower, k) THEN "Game"
       ELSE IF \E k \in SocialKeywords : Includes(lower, k) THEN "Social"
       ELSE IF \E k \in ProductivityKeywords : Includes(lower, k) THEN "Productivity"
       ELSE "General"

\* (mutant) a gap of exactly two minutes still joins the cluster
clusterEventsCheckInclusive(current, next) == next.timestamp - current.timestamp <= 120000

\* (mutant) events a minute apart are already split
clusterEventsCheckShort(current, next) == next.timestamp - current.timestamp < 60000

clusterEventsCheck(current, next) == next.timestamp - current.timestamp < 120000

\* events.forEach(e => appUsage[e.appName] = ...): the app names in order of first occurrence
RECURSIVE AppNamesInOrder(_, _)
AppNamesInOrder(events, seen) ==
    IF events = <<>> THEN seen
    ELSE IF \E i \in 1..Len(seen) : seen[i] = events[1].appName
         THEN AppNamesInOrder(Tail(events), seen)
         ELSE AppNamesInOrder(Tail(events), Append(seen, events[1].appName))

EventCount(events, name) ==
    Cardinality({i \in 1..Len(events) : events[i].appName = name})

\* events.find(e => e.appName === name)?.packageName || ""
PackageOfName(events, name) ==
    LET idx == {i \in 1..Len(events) : events[i].appName = name}
    IN IF idx = {} THEN ""
       ELSE events[CHOOSE i \in idx : \A j \in idx : i <= j].packageName

DigitValue ==
    ("0" :> 0) @@ ("1" :> 1) @@ ("2" :> 2) @@ ("3" :> 3) @@ ("4" :> 4) @@
    ("5" :> 5) @@ ("6" :> 6) @@ ("7" :> 7) @@ ("8" :> 8) @@ ("9" :> 9)

RECURSIVE NumericValue(_)
NumericValue(name) ==
    IF Len(name) = 0 THEN 0
    ELSE 10 * NumericValue(SubSeq(name, 1, Len(name) - 1)) + DigitValue[name[Len(name)]]

\* a property key that is an array index: a canonical decimal numeral below 2^32 - 1
\* (every numeral of at most 9 digits is; the names used here are no longer)
IsArrayIndex(name) ==
    /\ Len(name) \in 1..9
    /\ \A i \in 1..Len(name) : name[i] \in DOMAIN DigitValue
    /\ (Len(name) > 1) => (name[1] # "0")

RECURSIVE InsertByValue(_, _)
InsertByValue(s, x) ==
    IF s = <<>> THEN <<x>>
    ELSE IF NumericValue(x) < NumericValue(s[1]) THEN <<x>> \o s
    ELSE <<s[1]>> \o InsertByValue(Tail(s), x)

RECURSIVE SortByValue(_)
SortByValue(s) ==
    IF Len(s) = 0 THEN <<>>
    ELSE InsertByValue(SortByValue(SubSeq(s, 1, Len(s) - 1)), s[Len(s)])

\* Object.entries(appUsage): array-index keys in ascending numeric order, then the
\* other keys in the order they were first assigned
ObjectKeys(events) ==
    LET inserted == AppNamesInOrder(events, <<>>)
    IN SortByValue(SelectSeq(inserted, IsArrayIndex))
       \o SelectSeq(inserted, LAMBDA n : ~IsArrayIndex(n))

UnknownApp == [name |-> <<"U","n","k","n","o","w","n">>, pkg |-> "", usage |-> 0]

\* (mutant) a later app with an equal count replaces the current maximum
RECURSIVE DominantLastMax(_, _, _)
DominantLastMax(names, events, dominantApp) ==
    IF names = <<>> THEN dominantApp
    ELSE IF EventCount(events, names[1]) >= dominantApp.usage
         THEN DominantLastMax(Tail(names), events,
                              [name |-> names[1],
                               pkg |-> PackageOfName(events, names[1]),
                               usage |-> EventCount(events, names[1])])
         ELSE DominantLastMax(Tail(names), events, dominantApp)

RECURSIVE DominantFrom(_, _, _)
DominantFrom(names, events, dominantApp) ==
    IF names = <<>> THEN dominantApp
    ELSE IF EventCount(events, names[1]) > dominantApp.usage
         THEN DominantFrom(Tail(names), events,
                           [name |-> names[1],
                            pkg |-> PackageOfName(events, names[1]),
                            usage |-> EventCount(events, names[1])])
         ELSE DominantFrom(Tail(names), events, dominantApp)

DominantApp(events) == DominantFrom(ObjectKeys(events), events, UnknownApp)

\* (mutant) every segment is given the duration of the last one
ThreadWithoutGaps(events) ==
    [k \in 1..Len(events) |->
        [idx |-> k - 1,
         pkg |-> events[k].packageName,
         appName |-> events[k].appName,
         action |-> IF events[k].eventType = "APP_OPENED" THEN "OPEN" ELSE "CLOSE",
         timestamp |-> events[k].timestamp,
         durationMs |-> 0]]

Thread(events) ==
    [k \in 1..Len(events) |->
        [idx |-> k - 1,
         pkg |-> events[k].packageName,
         appName |-> events[k].appName,
         action |-> IF events[k].eventType = "APP_OPENED" THEN "OPEN" ELSE "CLOSE",
         timestamp |-> events[k].timestamp,
         durationMs |-> IF k < Len(events)
                        THEN events[k + 1].timestamp - events[k].timestamp
                        ELSE 0]]

DecimalDigits == <<"0", "1", "2", "3", "4", "5", "6", "7", "8", "9">>

\* Number.prototype.toString of a non-negative integer: its decimal numeral
RECURSIVE NumberToString(_)
NumberToString(n) ==
    IF n < 10 THEN <<DecimalDigits[n + 1]>>
    ELSE Append(NumberToString(n \div 10), DecimalDigits[(n % 10) + 1])

processCluster(events) ==
    LET startTime == events[1].timestamp
        endTime == events[Len(events)].timestamp
        totalDuration == IF endTime - startTime < 1000 THEN 1000 ELSE endTime - startTime
        dominantApp == DominantApp(events)
    IN [id |-> NumberToString(startTime),
        startTime |-> startTime,
        endTime |-> endTime,
        totalDuration |-> totalDuration,
        dominantApp |-> dominantApp,
        appCount |-> Cardinality({events[i].packageName : i \in 1..Len(events)}),
        thread |-> Thread(events),
        category |-> inferCategory(dominantApp.name)]

\* the clusters of the sorted events, in chronological order
RECURSIVE ClusterLoop(_, _, _, _)
ClusterLoop(allEvents, i, currentCluster, clusters) ==
    IF i > Len(allEvents) THEN Append(clusters, currentCluster)
    ELSE IF clusterEventsCheck(allEvents[i - 1], allEvents[i])
         THEN ClusterLoop(allEvents, i + 1, Append(currentCluster, allEvents[i]), clusters)
         ELSE ClusterLoop(allEvents, i + 1, <<allEvents[i]>>,
                          Append(clusters, currentCluster))

Clusters(allEvents) == ClusterLoop(allEvents, 2, <<allEvents[1]>>, <<>>)

IsMeaningfulActivity(s) == s.totalDuration > 10000

\* the list handed to setSessions by the activity timeline
PublishedActivity(docs) ==
    LET allEvents == SortByTimestamp(AllEvents(docs))
    IN IF Len(allEvents) = 0 THEN <<>>
       ELSE LET clusters == Clusters(allEvents)
                reconstructedSessions ==
                    [k \in 1..Len(clusters) |-> processCluster(clusters[k])]
            IN Reverse(SelectSeq(reconstructedSessions, IsMeaningfulActivity))

\* useEffect([deviceId, date]) body
ActivitySubscribe(ls, params) ==
    IF params.deviceId = "" \/ params.date = ""
    THEN /\ listeners' = ls
         /\ UNCHANGED activityLoading
    ELSE /\ activityLoading' = TRUE
         /\ listeners' = Append(ls, Listener("activity", params.deviceId, params.date, ""))

ActivityNavigate(params) ==
    /\ activityParams # Null
    /\ params # activityParams
    /\ activityParams' = params
    /\ ActivitySubscribe(Unsubscribe(listeners, "activity"), params)
    /\ UNCHANGED <<store, dashVars, deviceVars, now, appVars, activitySessions>>

ActivityUnmount ==
    /\ activityParams # Null
    /\ activityParams' = Null
    /\ listeners' = Unsubscribe(listeners, "activity")
    /\ UNCHANGED <<store, dashVars, deviceVars, now, appVars, activitySessions, activityLoading>>

\* the onSnapshot callback of listener i
ActivitySnapshot(i) ==
    /\ i \in 1..Len(listeners)
    /\ listeners[i].page = "activity"
    /\ activitySessions' =
          PublishedActivity(store[<<listeners[i].deviceId, listeners[i].date>>])
    /\ activityLoading' = FALSE
    /\ UNCHANGED <<store, dashVars, deviceVars, listeners, now, appVars, activityParams>>

ActivityInit(params) ==
    /\ activityParams = params
    /\ activitySessions = <<>>
    /\ activityLoading = TRUE

ActivityIdle ==
    /\ activityParams = Null
    /\ activitySessions = <<>>
    /\ activityLoading = TRUE

----------------------------------------------------------------------------
(* Document bags the store may hold *)

\* Days used to exercise the delta arithmetic: few snapshots, all app lists
RichUsageDocs == {UsageDoc(ts, apps) : ts \in SnapTimes, apps \in AppLists}
DeltaDays == SeqsUpTo(RichUsageDocs, MaxSnapshots)

\* Days used to exercise the selection of snapshots: more documents, short app lists
LeanAppLists == {<<>>, <<[packageName |-> "a", usageTimeMs |-> 200000]>>}
LeanDocs ==
    {UsageDoc(ts, apps) : ts \in SnapTimes, apps \in LeanAppLists}
    \cup {UsageDocNoApps(ts) : ts \in SnapTimes}
    \cup {DeviceDoc(ts, b) : ts \in SnapTimes, b \in BatteryVals}
    \cup {[id |-> "events_", data |-> [events |-> <<>>]]}
SelectDays == SeqsUpTo(LeanDocs, MaxDocs)

\* Days used when several keys are fetched concurrently
RaceDays ==
    { <<>>,
      <<DeviceDoc(0, 50), UsageDoc(0, <<>>)>>,
      <<UsageDoc(0, <<[packageName |-> "a", usageTimeMs |-> 0]>>),
        UsageDoc(300000, <<[packageName |-> "a", usageTimeMs |-> 200000]>>),
        DeviceDoc(300000, 80)>> }

\* Days used to exercise the session reconstruction of package "a"
Event(pkg, type, ts) ==
    [packageName |-> pkg, appName |-> AppNameOf[pkg], eventType |-> type, timestamp |-> ts]

SessionEvents ==
    {Event("a", type, ts) : type \in RawEventTypes, ts \in EventTimes}
    \cup {Event("b", "APP_OPENED", 0)}
SessionDays == {<<EventsDoc(evs)>> : evs \in SeqsUpTo(SessionEvents, MaxEvents)}

\* Days used to exercise the activity clustering: gaps of 119999 and 120000 ms,
\* clusters of 10000 and 10001 ms, app names of every category, a numeric app name
NamedEvent(pkg, name, type, ts) ==
    [packageName |-> pkg, appName |-> name, eventType |-> type, timestamp |-> ts]

CodMail == <<"C","o","d","M","a","i","l">>
CodTelegram == <<"C","o","d","T","e","l","e","g","r","a","m">>
TelegramDocs == <<"T","e","l","e","g","r","a","m","D","o","c","s">>
Maps == <<"M","a","p","s">>
Game2048 == <<"2","0","4","8">>

ClusterEvents ==
    {Event("a", "APP_OPENED", ts) : ts \in {0, 10000, 10001, 130000}}
    \cup {Event("a", "APP_CLOSED", 70001),
          Event("b", "APP_OPENED", 10001),
          Event("b", "APP_OPENED", 250000),
          Event("b", "SCREEN_ON", 0),
          NamedEvent("a2", AppNameOf["a"], "APP_OPENED", 10001),
          NamedEvent("n", Game2048, "APP_OPENED", 10001),
          NamedEvent("c", CodMail, "APP_OPENED", 0),
          NamedEvent("d", CodTelegram, "APP_OPENED", 0),
          NamedEvent("e", TelegramDocs, "APP_OPENED", 0),
          NamedEvent("f", Maps, "APP_OPENED", 0)}
ClusterDays == {<<EventsDoc(evs)>> : evs \in SeqsUpTo(ClusterEvents, MaxEvents)}

\* a day with one session of 60000 ms and one of 60001 ms
BoundarySessionDay ==
    <<EventsDoc(<<Event("a", "APP_OPENED", 0), Event("a", "APP_OPENED", 60000),
                  Event("a", "APP_CLOSED", 120001)>>)>>

\* a day with one cluster of 10000 ms and one of 10001 ms
BoundaryClusterDay ==
    <<EventsDoc(<<Event("a", "APP_OPENED", 0), Event("b", "APP_OPENED", 10000)>>),
      EventsDoc(<<Event("a", "APP_OPENED", 130000), Event("b", "APP_CLOSED", 140001)>>)>>

\* days with several clusters long enough to be returned: 120000 ms between two
\* clusters, a short cluster between two long ones, events 60000 ms apart, two
\* clusters in documents delivered latest first
SeparationDays ==
    { <<EventsDoc(<<Event("a", "APP_OPENED", 130001), Event("b", "APP_OPENED", 250000)>>),
        EventsDoc(<<Event("a", "APP_OPENED", 0), Event("b", "APP_OPENED", 10001)>>)>>,
      <<EventsDoc(<<Event("a", "APP_OPENED", 0), Event("a", "APP_CLOSED", 10001),
                    Event("b", "APP_OPENED", 130001),
                    Event("a", "APP_OPENED", 250001), Event("a", "APP_CLOSED", 260002)>>)>>,
      <<EventsDoc(<<Event("a", "APP_OPENED", 0), Event("a", "APP_OPENED", 10001),
                    Event("a", "APP_CLOSED", 70001), Event("a", "APP_OPENED", 130000)>>)>> }

\* Stores used when the pages change key while subscribed: one device has events
PageDay ==
    <<MalformedEventsDoc,
      EventsDoc(<<Event("a", "APP_CLOSED", 120001), Event("a", "APP_OPENED", 0)>>),
      EventsDoc(<<Event("b", "APP_OPENED", 60000)>>)>>
PageStores == {[k \in Keys |-> IF k[1] = d THEN PageDay ELSE <<>>] : d \in Devices}

AppParamSet == [deviceId : Devices, date : Dates, packageName : Packages]
ActivityParamSet == [deviceId : Devices, date : Dates]

----------------------------------------------------------------------------
(* Specifications *)

\* The dashboard with the user switching device and date while fetches are pending
Init ==
    /\ store \in [Keys -> RaceDays]
    /\ DashInit
    /\ listeners = <<>> /\ now = 0
    /\ AppIdle
    /\ ActivityIdle

Next ==
    \/ \E d \in Devices : HandleAddDevice(d)
    \/ \E d \in Devices : SetSelectedDevice(d)
    \/ \E dt \in Dates : SetSelectedDate(dt)
    \/ \E i \in 1..MaxInFlight : FetchDataResolved(i)
    \/ \E i \in 1..MaxInFlight : FetchDataRejected(i)

Spec == Init /\ [][Next]_vars

\* One fetch of one key, over every document bag of the day
FetchKey == <<"d1", Today>>

InitFetch ==
    /\ store \in {[k \in Keys |-> IF k = FetchKey THEN docs ELSE <<>>] :
                    docs \in DeltaDays \cup SelectDays}
    /\ DashInit
    /\ listeners = <<>> /\ now = 0
    /\ AppIdle
    /\ ActivityIdle

NextFetch ==
    \/ selectedDevice = NoDevice /\ HandleAddDevice(FetchKey[1])
    \/ FetchDataResolved(1)
    \/ FetchDataRejected(1)

SpecFetch == InitFetch /\ [][NextFetch]_vars

\* The two detail pages, mounted, changing key and being disposed while subscribed
FirstAppParams == [deviceId |-> "d1", date |-> Today, packageName |-> "a"]
FirstActivityParams == [deviceId |-> "d1", date |-> Today]

InitPages ==
    /\ store \in PageStores
    /\ DashInit
    /\ now = 0
    /\ AppInit(FirstAppParams)
    /\ ActivityInit(FirstActivityParams)
    /\ listeners = <<Listener("app", "d1", Today, "a"), Listener("activity", "d1", Today, "")>>

NextPages ==
    \/ \E params \in AppParamSet : AppNavigate(params)
    \/ AppUnmount
    \/ \E i \in 1..Len(listeners) : AppSnapshot(i)
    \/ \E params \in ActivityParamSet : ActivityNavigate(params)
    \/ ActivityUnmount
    \/ \E i \in 1..Len(listeners) : ActivitySnapshot(i)
    \/ \E i \in 1..Len(listeners) : ListenerFailed(i)

SpecPages == InitPages /\ [][NextPages]_vars

\* Both pages subscribed once; the store delivers a snapshot to every listener it
\* keeps, and may report a failure instead
SubscribedDays ==
    { <<MalformedEventsDoc>>,
      <<EventsDoc(<<Event("a", "APP_OPENED", 0)>>)>> }
SubscribedStores ==
    {[k \in Keys |-> IF k[1] = d THEN day ELSE <<>>] : d \in Devices, day \in SubscribedDays}

InitSubscribed ==
    /\ store \in SubscribedStores
    /\ DashInit
    /\ now = 0
    /\ AppInit(FirstAppParams)
    /\ ActivityInit(FirstActivityParams)
    /\ listeners = <<Listener("app", "d1", Today, "a"), Listener("activity", "d1", Today, "")>>

NextSubscribed ==
    \/ \E i \in 1..Len(listeners) : AppSnapshot(i)
    \/ \E i \in 1..Len(listeners) : ActivitySnapshot(i)
    \/ \E i \in 1..Len(listeners) : ListenerFailed(i)
    \/ AppUnmount
    \/ ActivityUnmount

SpecSubscribed ==
    /\ InitSubscribed
    /\ [][NextSubscribed]_vars
    /\ WF_vars(\E i \in 1..Len(listeners) : AppSnapshot(i))
    /\ WF_vars(\E i \in 1..Len(listeners) : ActivitySnapshot(i))

\* One subscription of the app detail page, over every event stream of the day
InitSessions ==
    /\ store \in {[k \in Keys |-> docs] : docs \in SessionDays}
    /\ DashInit
    /\ now = 0
    /\ \E date \in Dates :
          /\ AppInit([deviceId |-> "d1", date |-> date, packageName |-> "a"])
          /\ listeners = <<Listener("app", "d1", date, "a")>>
    /\ ActivityIdle

NextSessions == AppSnapshot(1)

SpecSessions == InitSessions /\ [][NextSessions]_vars

\* The dashboard from its first render: fetchDevices pending, the persisted selection
\* (if any) loaded and its fetch started
CachedIdLists == {NoSavedIds, <<>>, <<"d1">>, <<"d2", "d1">>, <<"d1", "d1">>}
ServerIdLists == {<<>>, <<"d1">>, <<"d1", "d2">>}
DeviceStores ==
    {[k \in Keys |-> IF k[1] = d THEN docs ELSE <<>>] :
        d \in Devices, docs \in RaceDays \ {<<>>}}

InitDevices ==
    /\ store \in DeviceStores
    /\ selectedDevice \in {NoDevice} \cup Devices
    /\ selectedDate = Today
    /\ usageStats = Null
    /\ deviceStats = Null
    /\ error = NoError
    /\ loading = (selectedDevice # NoDevice)
    /\ inflight = IF selectedDevice = NoDevice THEN <<>> ELSE << <<selectedDevice, Today>> >>
    /\ devices = <<>>
    /\ savedIds \in CachedIdLists
    /\ devicesFetch = "pending"
    /\ effectPending = FALSE
    /\ listeners = <<>> /\ now = 0
    /\ AppIdle
    /\ ActivityIdle

NextDevices ==
    \/ \E ids \in ServerIdLists : FetchDevicesResolved(ids)
    \/ FetchDevicesRejected
    \/ FetchDataEffect
    \/ \E d \in Devices : HandleAddDevice(d)
    \/ \E d \in Devices : SetSelectedDevice(d)
    \/ \E dt \in Dates : SetSelectedDate(dt)
    \/ \E i \in 1..MaxInFlight : FetchDataResolved(i)
    \/ \E i \in 1..MaxInFlight : FetchDataRejected(i)

SpecDevices == InitDevices /\ [][NextDevices]_vars

\* Both detail pages of device d1, each receiving the snapshot of its own day: the
\* app detail page on today's events, the activity timeline on yesterday's
TimelineAppKey == <<"d1", Today>>
TimelineActivityKey == <<"d1", "2024-05-20">>

TimelineStore(sessionDay, clusterDay) ==
    [k \in Keys |-> IF k = TimelineAppKey THEN sessionDay
                    ELSE IF k = TimelineActivityKey THEN clusterDay
                    ELSE <<>>]

TimelineActivityParams == [deviceId |-> "d1", date |-> "2024-05-20"]

\* either page alone over every day of its kind, and both pages over the boundary days
InitTimelines ==
    /\ DashInit
    /\ now = 0
    /\ \/ /\ store \in {TimelineStore(s, <<>>) : s \in SessionDays}
          /\ AppInit(FirstAppParams)
          /\ ActivityIdle
          /\ listeners = <<Listener("app", "d1", Today, "a")>>
       \/ /\ store \in {TimelineStore(<<>>, c) : c \in ClusterDays \cup SeparationDays}
          /\ AppIdle
          /\ ActivityInit(TimelineActivityParams)
          /\ listeners = <<Listener("activity", "d1", "2024-05-20", "")>>
       \/ /\ store = TimelineStore(BoundarySessionDay, BoundaryClusterDay)
          /\ AppInit(FirstAppParams)
          /\ ActivityInit(TimelineActivityParams)
          /\ listeners = <<Listener("app", "d1", Today, "a"),
                           Listener("activity", "d1", "2024-05-20", "")>>

NextTimelines ==
    \/ \E i \in 1..Len(listeners) : AppSnapshot(i)
    \/ \E i \in 1..Len(listeners) : ActivitySnapshot(i)

SpecTimelines == InitTimelines /\ [][NextTimelines]_vars

----------------------------------------------------------------------------
(* Properties of the dashboard *)

SelectedKey == <<selectedDevice, selectedDate>>

\* the state fetchData publishes for a bag of documents when nothing interferes
PublishedUsage(docs) ==
    IF docs = <<>> \/ ValidSnapshots(docs) = <<>> THEN Null ELSE ReconstructedUsage(docs)

PublishedDevice(docs) == IF docs = <<>> THEN Null ELSE LatestDevice(docs)

\* C1: a fetch result arriving for a key that is no longer selected is never
\* written to usageStats, deviceStats or error, and once no fetch is pending (and
\* none failed) usageStats and deviceStats are those of the selected key's documents.
C1_StaleResultsDiscarded ==
    [][ /\ \A i \in 1..Len(inflight) :
              (inflight' = RemoveAt(inflight, i) /\ inflight[i] # SelectedKey)
                  => UNCHANGED <<usageStats, deviceStats, error>>
        /\ (inflight' = <<>> /\ selectedDevice' # NoDevice /\ error' = NoError)
              => /\ usageStats' = PublishedUsage(store[<<selectedDevice', selectedDate'>>])
                 /\ deviceStats' = PublishedDevice(store[<<selectedDevice', selectedDate'>>])
      ]_vars

\* The single fetch of SpecFetch has resolved
FetchDone == selectedDevice # NoDevice /\ loading = FALSE /\ error = NoError

FetchedDocs == store[FetchKey]

ValidIdx(docs) ==
    {i \in 1..Len(docs) : /\ docs[i].id = "app_usage_"
                          /\ "apps" \in DOMAIN docs[i].data
                          /\ docs[i].data.apps # <<>>}

MaxValidTs(docs) ==
    CHOOSE t \in {docs[i].data.timestamp : i \in ValidIdx(docs)} :
        \A i \in ValidIdx(docs) : docs[i].data.timestamp <= t

MinValidTs(docs) ==
    CHOOSE t \in {docs[i].data.timestamp : i \in ValidIdx(docs)} :
        \A i \in ValidIdx(docs) : docs[i].data.timestamp >= t

\* C2: with at least one valid snapshot, every app of the result has
\* usageTimeMs <= max(0, latest.timestamp - earliest.timestamp) + 60000, and an app
\* absent from the earliest snapshot gets min(latest.usageTimeMs, monitoringDuration + 60000).
C2_ClampInvariant ==
    (FetchDone /\ ValidIdx(FetchedDocs) # {}) =>
        LET e == Earliest(FetchedDocs)
            l == Latest(FetchedDocs)
            window == Max(0, MaxValidTs(FetchedDocs) - MinValidTs(FetchedDocs))
        IN /\ usageStats # Null
           /\ Len(usageStats.apps) = Len(l.apps)
           /\ \A i \in 1..Len(usageStats.apps) :
                 /\ usageStats.apps[i].usageTimeMs <= window + 60000
                 /\ (\A j \in 1..Len(e.apps) :
                        e.apps[j].packageName # l.apps[i].packageName)
                    => usageStats.apps[i].usageTimeMs
                         = Min(l.apps[i].usageTimeMs, window + 60000)

\* a 9h counter of an app absent from the baseline, seen over 5 minutes, yields 6 minutes
C2_Witness ==
    /\ FetchDone /\ usageStats # Null
    /\ MaxValidTs(FetchedDocs) - MinValidTs(FetchedDocs) = 300000
    /\ \E i \in 1..Len(usageStats.apps) :
          /\ Latest(FetchedDocs).apps[i].usageTimeMs = 32400000
          /\ \A j \in 1..Len(Earliest(FetchedDocs).apps) :
                Earliest(FetchedDocs).apps[j].packageName # usageStats.apps[i].packageName
          /\ usageStats.apps[i].usageTimeMs = 360000

\* the entries of the earliest snapshot for the package of latest.apps[i]
BaselineOf(e, pkg) == {j \in 1..Len(e.apps) : e.apps[j].packageName = pkg}

\* C3: an app present in the earliest and the latest valid snapshot, with
\* latest.usageTimeMs >= earliest.usageTimeMs and latest.timestamp > earliest.timestamp,
\* gets max(0, min(latest.usageTimeMs - earliest.usageTimeMs, monitoringDuration + 60000)).
C3_DeltaFormula ==
    (FetchDone /\ ValidIdx(FetchedDocs) # {}) =>
        LET e == Earliest(FetchedDocs)
            l == Latest(FetchedDocs)
        IN (l.timestamp > e.timestamp) =>
             \A i \in 1..Len(l.apps) : \A j \in BaselineOf(e, l.apps[i].packageName) :
                (l.apps[i].usageTimeMs >= e.apps[j].usageTimeMs) =>
                   /\ usageStats.apps[i].packageName = l.apps[i].packageName
                   /\ usageStats.apps[i].usageTimeMs =
                        Max(0, Min(l.apps[i].usageTimeMs - e.apps[j].usageTimeMs,
                                   (l.timestamp - e.timestamp) + 60000))

\* a counter that stood at 200000 in both snapshots yields 0, one that grew by
\* 200000 within the window yields 200000
C3_Witness ==
    /\ FetchDone /\ usageStats # Null
    /\ Latest(FetchedDocs).timestamp > Earliest(FetchedDocs).timestamp
    /\ Len(usageStats.apps) = 2
    /\ \E i, k \in 1..2 :
          /\ \E j \in BaselineOf(Earliest(FetchedDocs), usageStats.apps[i].packageName) :
                /\ Earliest(FetchedDocs).apps[j].usageTimeMs = 200000
                /\ Latest(FetchedDocs).apps[i].usageTimeMs = 200000
          /\ usageStats.apps[i].usageTimeMs = 0
          /\ \E j \in BaselineOf(Earliest(FetchedDocs), usageStats.apps[k].packageName) :
                /\ Earliest(FetchedDocs).apps[j].usageTimeMs = 0
                /\ Latest(FetchedDocs).apps[k].usageTimeMs = 200000
          /\ usageStats.apps[k].usageTimeMs = 200000

\* C4: an app whose latest.usageTimeMs is lower than its usageTimeMs in the
\* earliest snapshot gets min(latest.usageTimeMs, monitoringDuration + 60000), and
\* no reconstructed per-app usage is negative.
C4_CounterReset ==
    (FetchDone /\ ValidIdx(FetchedDocs) # {}) =>
        LET e == Earliest(FetchedDocs)
            l == Latest(FetchedDocs)
        IN /\ \A i \in 1..Len(usageStats.apps) : usageStats.apps[i].usageTimeMs >= 0
           /\ \A i \in 1..Len(l.apps) : \A j \in BaselineOf(e, l.apps[i].packageName) :
                (l.apps[i].usageTimeMs < e.apps[j].usageTimeMs) =>
                   usageStats.apps[i].usageTimeMs =
                      Min(l.apps[i].usageTimeMs,
                          Max(0, l.timestamp - e.timestamp) + 60000)

\* a counter that fell from 9h to 200000 over 5 minutes yields 200000
C4_Witness ==
    /\ FetchDone /\ usageStats # Null
    /\ Latest(FetchedDocs).timestamp - Earliest(FetchedDocs).timestamp = 300000
    /\ \E i \in 1..Len(usageStats.apps) :
          /\ Latest(FetchedDocs).apps[i].usageTimeMs = 200000
          /\ \E j \in BaselineOf(Earliest(FetchedDocs), usageStats.apps[i].packageName) :
                Earliest(FetchedDocs).apps[j].usageTimeMs = 32400000
          /\ usageStats.apps[i].usageTimeMs = 200000

RECURSIVE SumFirst(_, _)
SumFirst(apps, n) == IF n = 0 THEN 0 ELSE SumFirst(apps, n - 1) + apps[n].usageTimeMs

\* C5: whenever usageStats is non-null, usageStats.totalScreenTimeMs is the sum of
\* usageTimeMs over usageStats.apps, not the total a snapshot carries.
C5_TotalConsistency ==
    (usageStats # Null) =>
        usageStats.totalScreenTimeMs = SumFirst(usageStats.apps, Len(usageStats.apps))

\* a published total that differs from the total field of the latest snapshot
C5_Witness ==
    /\ FetchDone /\ usageStats # Null
    /\ Len(usageStats.apps) = 2
    /\ usageStats.totalScreenTimeMs = 360000 + 200000
    /\ Latest(FetchedDocs).totalScreenTimeMs = 32400000 + 200000

\* C6: snapshots whose apps list is empty are discarded; among the others, earliest
\* has the minimum and latest the maximum timestamp (the same snapshot when only one
\* is valid), whatever order the documents were delivered in.
C6_BaselineSelection ==
    FetchDone =>
        LET docs == FetchedDocs
            valid == {docs[i].data : i \in ValidIdx(docs)}
        IN /\ (ValidIdx(docs) = {}) <=> (usageStats = Null)
           /\ (ValidIdx(docs) = {}) <=> (ValidSnapshots(docs) = <<>>)
           /\ (ValidIdx(docs) # {}) =>
                /\ Earliest(docs) \in valid
                /\ Latest(docs) \in valid
                /\ Earliest(docs).timestamp = MinValidTs(docs)
                /\ Latest(docs).timestamp = MaxValidTs(docs)
                /\ usageStats.timestamp = MaxValidTs(docs)
                /\ (Cardinality(ValidIdx(docs)) = 1) => (Earliest(docs) = Latest(docs))

\* delivered newest first, with an empty snapshot that is older than every valid one
C6_Witness ==
    /\ FetchDone /\ usageStats # Null
    /\ \E i, j, k \in 1..Len(FetchedDocs) :
          /\ i < j /\ {i, j} \subseteq ValidIdx(FetchedDocs)
          /\ FetchedDocs[i].data.timestamp > FetchedDocs[j].data.timestamp
          /\ FetchedDocs[k].id = "app_usage_" /\ k \notin ValidIdx(FetchedDocs)
          /\ FetchedDocs[k].data.timestamp <= FetchedDocs[j].data.timestamp
          /\ k < j

\* C7: when the day's documents contain no app-usage snapshot with a non-empty apps
\* list, the fetch ends with usageStats = null, no error message and loading = false,
\* and deviceStats set to the selected device-stats snapshot if a device_* document exists.
C7_NoValidSnapshots ==
    [][ \A i \in 1..Len(inflight) :
          (FetchDataResolved(i) /\ ValidIdx(store[inflight[i]]) = {})
          => /\ usageStats' = Null
             /\ error' = NoError
             /\ \/ deviceStats' = LatestDevice(store[inflight[i]])
                \/ \A k \in 1..Len(store[inflight[i]]) : store[inflight[i]][k].id # "device_"
      ]_vars

DeviceIdx(docs) == {i \in 1..Len(docs) : docs[i].id = "device_"}

\* C8: the deviceStats published after a fetch is a device_* document whose timestamp
\* is the maximum over all device_* documents of the day, unchanged, and null only
\* when the day has none.
C8_DeviceStatsSelector ==
    FetchDone =>
        LET docs == FetchedDocs
        IN IF DeviceIdx(docs) = {}
           THEN deviceStats = Null
           ELSE /\ \E i \in DeviceIdx(docs) : deviceStats = docs[i].data
                /\ \A i \in DeviceIdx(docs) : docs[i].data.timestamp <= deviceStats.timestamp

\* an older device document delivered after the newest one
C8_Witness ==
    /\ FetchDone
    /\ \E i, j \in DeviceIdx(FetchedDocs) :
          /\ i < j
          /\ FetchedDocs[i].data.timestamp > FetchedDocs[j].data.timestamp
          /\ deviceStats = FetchedDocs[i].data

----------------------------------------------------------------------------
(* Properties of the detail pages *)

ListenersOf(page) == SelectSeq(listeners, LAMBDA l : l.page = page)

\* at most one listener per page, the one of the page's current key, none once disposed
OnlyCurrentSubscriptions ==
    /\ Len(ListenersOf("app")) <= 1
    /\ Len(ListenersOf("activity")) <= 1
    /\ (appParams = Null) => (ListenersOf("app") = <<>>)
    /\ (activityParams = Null) => (ListenersOf("activity") = <<>>)
    /\ \A i \in 1..Len(ListenersOf("app")) :
          ListenersOf("app")[i] =
              Listener("app", appParams.deviceId, appParams.date, appParams.packageName)
    /\ \A i \in 1..Len(ListenersOf("activity")) :
          ListenersOf("activity")[i] =
              Listener("activity", activityParams.deviceId, activityParams.date, "")

\* C9: after any sequence of key changes and disposal at most one store subscription
\* per page is active, it is the one of the current (device, date[, package]) key,
\* none is active after disposal, and sessions are only ever updated with the
\* snapshot of the current key.
C9_SubscriptionTeardown ==
    [][ /\ OnlyCurrentSubscriptions
        /\ OnlyCurrentSubscriptions'
        /\ (appSessions' # appSessions) =>
              /\ appParams # Null
              /\ appSessions' = PublishedSessions(store[<<appParams.deviceId, appParams.date>>],
                                                  appParams.packageName, appParams.date, now')
        /\ (activitySessions' # activitySessions) =>
              /\ activityParams # Null
              /\ activitySessions' =
                    PublishedActivity(store[<<activityParams.deviceId, activityParams.date>>])
      ]_vars

\* the app page moved to another key and shows that key's sessions through its only
\* listener, while the disposed activity page has none
C9_Witness ==
    /\ appParams # Null /\ appParams # FirstAppParams
    /\ activityParams = Null
    /\ appLoading = FALSE
    /\ listeners = <<Listener("app", appParams.deviceId, appParams.date, appParams.packageName)>>
    /\ appSessions # <<>>
    /\ appSessions = PublishedSessions(store[<<appParams.deviceId, appParams.date>>],
                                       appParams.packageName, appParams.date, now)
    /\ appSessions # PublishedSessions(store[<<"d1", Today>>], "a", Today, now)

\* The snapshot callback of SpecSessions has run
SessionsDone == appLoading = FALSE

\* the chronological events of the page's package
TargetEvents ==
    AppEvents(AllEvents(store[<<appParams.deviceId, appParams.date>>]), appParams.packageName)

OpenCloseIdx(evs) ==
    {i \in 1..Len(evs) : evs[i].eventType \in {"APP_OPENED", "APP_CLOSED"}}

LastOpenClose(evs) == CHOOSE i \in OpenCloseIdx(evs) : \A j \in OpenCloseIdx(evs) : j <= i

\* the stream ends with an open that no close follows
TrailingOpen(evs) ==
    OpenCloseIdx(evs) # {} /\ evs[LastOpenClose(evs)].eventType = "APP_OPENED"

OngoingIdx(sessions) ==
    {i \in 1..Len(sessions) : sessions[i].endTime = NullTime /\ sessions[i].isOngoing}

\* C10 as claimed: on the current day, a stream whose last open/close event is an
\* APP_OPENED yields exactly one session with endTime = null and isOngoing = true,
\* starting at that open with durationMs = now - startTime.
C10_OngoingSession ==
    (SessionsDone /\ appParams.date = Today /\ TrailingOpen(TargetEvents)) =>
        /\ Cardinality(OngoingIdx(appSessions)) = 1
        /\ \A i \in OngoingIdx(appSessions) :
              /\ appSessions[i].startTime = TargetEvents[LastOpenClose(TargetEvents)].timestamp
              /\ appSessions[i].durationMs = now - appSessions[i].startTime

\* C10 as amended: that session is returned when now - startTime > 60000; otherwise
\* the noise filter drops it and the list holds no session with endTime = null or
\* isOngoing = true.
C10_OngoingSessionUnlessNoise ==
    (SessionsDone /\ appParams.date = Today /\ TrailingOpen(TargetEvents)) =>
        LET t == TargetEvents[LastOpenClose(TargetEvents)].timestamp
        IN IF now - t > 60000
           THEN /\ Cardinality(OngoingIdx(appSessions)) = 1
                /\ \A i \in OngoingIdx(appSessions) :
                      /\ appSessions[i].startTime = t
                      /\ appSessions[i].durationMs = now - t
                /\ \A i \in 1..Len(appSessions) :
                      (appSessions[i].endTime = NullTime \/ appSessions[i].isOngoing)
                          => i \in OngoingIdx(appSessions)
           ELSE \A i \in 1..Len(appSessions) :
                   appSessions[i].endTime # NullTime /\ ~appSessions[i].isOngoing

\* an open at 60000 left pending, read at 120001: one ongoing session of 60001 ms,
\* after an earlier completed session
C10_Witness ==
    /\ SessionsDone /\ appParams.date = Today /\ TrailingOpen(TargetEvents)
    /\ now = 120001
    /\ Len(TargetEvents) = 3
    /\ TargetEvents[LastOpenClose(TargetEvents)].timestamp = 60000
    /\ Len(appSessions) = 1
    /\ appSessions[1] = [startTime |-> 60000, endTime |-> NullTime,
                         durationMs |-> 60001, isOngoing |-> TRUE]

\* C11: on a day that is not today, a stream whose last open/close event is an
\* APP_OPENED at t yields the closed session [t, t + 3600000] of 3600000 ms, not
\* ongoing, as the first (most recent) session of the list.
C11_PastDayCap ==
    (SessionsDone /\ appParams.date # Today /\ TrailingOpen(TargetEvents)) =>
        LET t == TargetEvents[LastOpenClose(TargetEvents)].timestamp
        IN /\ Len(appSessions) >= 1
           /\ appSessions[1] = [startTime |-> t, endTime |-> t + 3600000,
                                durationMs |-> 3600000, isOngoing |-> FALSE]

\* yesterday: a completed session of 120001 ms, then an open at 120001 left pending
C11_Witness ==
    /\ SessionsDone /\ appParams.date # Today /\ TrailingOpen(TargetEvents)
    /\ appSessions = <<[startTime |-> 120001, endTime |-> 3720001,
                        durationMs |-> 3600000, isOngoing |-> FALSE],
                       [startTime |-> 0, endTime |-> 120001,
                        durationMs |-> 120001, isOngoing |-> FALSE]>>

\* C12: in every published session list, endTime = null exactly when isOngoing,
\* such a session appears only when the selected day is today, and every other
\* session has durationMs = endTime - startTime.
C12_AppSessionInvariant ==
    \A i \in 1..Len(appSessions) :
        LET s == appSessions[i]
        IN /\ (s.endTime = NullTime) <=> s.isOngoing
           /\ s.isOngoing => appParams.date = Today
           /\ ~s.isOngoing => s.durationMs = s.endTime - s.startTime

\* today: an ongoing session listed before a completed one
C12_Witness ==
    /\ SessionsDone /\ appParams.date = Today
    /\ Len(appSessions) = 2
    /\ appSessions[1].isOngoing /\ appSessions[1].endTime = NullTime
    /\ ~appSessions[2].isOngoing
    /\ appSessions[2].durationMs = appSessions[2].endTime - appSessions[2].startTime

EventTypes(evs) == [i \in 1..Len(evs) |-> evs[i].eventType]

\* an open is pending when event k is met: the last open/close event before k is an open
PendingBefore(evs, k) ==
    \E j \in 1..(k - 1) :
        /\ evs[j].eventType = "APP_OPENED"
        /\ \A i \in (j + 1)..(k - 1) : evs[i].eventType \notin {"APP_OPENED", "APP_CLOSED"}

WalkPrefix(evs, k) == WalkEvents(SubSeq(evs, 1, k), <<>>, Null)

\* C13: an APP_CLOSED met while no open is pending emits no session and leaves the
\* walk's state unchanged; the stream [CLOSE, OPEN, CLOSE] reconstructs exactly one
\* completed session, from the OPEN to the second CLOSE, before the noise filter.
C13_DanglingClose ==
    SessionsDone =>
        LET evs == TargetEvents
        IN /\ \A k \in 1..Len(evs) :
                 (evs[k].eventType = "APP_CLOSED" /\ ~PendingBefore(evs, k))
                     => WalkPrefix(evs, k) = WalkPrefix(evs, k - 1)
           /\ (EventTypes(evs) = <<"APP_CLOSED", "APP_OPENED", "APP_CLOSED">>) =>
                 LET only == [startTime |-> evs[2].timestamp,
                              endTime |-> evs[3].timestamp,
                              durationMs |-> evs[3].timestamp - evs[2].timestamp,
                              isOngoing |-> FALSE]
                 IN /\ ReconstructedSessions(evs, IsToday(appParams.date), now) = <<only>>
                    /\ appSessions = IF only.durationMs > 60000 THEN <<only>> ELSE <<>>

\* close at 0, open at 60000, close at 120001: the one session of 60001 ms
C13_Witness ==
    /\ SessionsDone
    /\ EventTypes(TargetEvents) = <<"APP_CLOSED", "APP_OPENED", "APP_CLOSED">>
    /\ appSessions = <<[startTime |-> 60000, endTime |-> 120001,
                        durationMs |-> 60001, isOngoing |-> FALSE]>>

----------------------------------------------------------------------------
(* Properties of the two reconstructions, under SpecTimelines *)

\* The snapshot callback of the activity timeline has run
ActivityDone == activityParams # Null /\ activityLoading = FALSE

\* the chronological events of the activity timeline's day
ActivityEvents ==
    SortByTimestamp(AllEvents(store[<<activityParams.deviceId, activityParams.date>>]))

ActivityClusters == IF ActivityEvents = <<>> THEN <<>> ELSE Clusters(ActivityEvents)

\* the sessions reconstructed for the app detail page before the noise filter
ReconstructedNow == ReconstructedSessions(TargetEvents, IsToday(appParams.date), now)

ClusterSpan(c) == Max(1000, c[Len(c)].timestamp - c[1].timestamp)

ThreadTimes(s) == [k \in 1..Len(s.thread) |-> s.thread[k].timestamp]

ClusterTimes(c) == [k \in 1..Len(c) |-> c[k].timestamp]

\* C14: the Session Reconstructor returns a session exactly when its durationMs
\* exceeds 60000 (60000 excluded, 60001 included), and the Activity Clusterer
\* returns a cluster exactly when its totalDuration exceeds 10000 (10000 excluded,
\* 10001 included).
C14_NoiseBoundaries ==
    /\ SessionsDone =>
          LET r == ReconstructedNow
          IN /\ \A i \in 1..Len(r) :
                   (r[i].durationMs > 60000)
                       <=> (\E j \in 1..Len(appSessions) : appSessions[j] = r[i])
             /\ Len(appSessions) =
                   Cardinality({i \in 1..Len(r) : r[i].durationMs > 60000})
             /\ \A j \in 1..Len(appSessions) : appSessions[j].durationMs >= 60001
    /\ ActivityDone =>
          LET cl == ActivityClusters
          IN /\ \A c \in 1..Len(cl) :
                   (ClusterSpan(cl[c]) > 10000)
                       <=> (\E j \in 1..Len(activitySessions) :
                               /\ ThreadTimes(activitySessions[j]) = ClusterTimes(cl[c])
                               /\ activitySessions[j].totalDuration = ClusterSpan(cl[c]))
             /\ Len(activitySessions) =
                   Cardinality({c \in 1..Len(cl) : ClusterSpan(cl[c]) > 10000})
             /\ \A j \in 1..Len(activitySessions) :
                   activitySessions[j].totalDuration >= 10001

\* sessions of 60000 and 60001 ms and clusters of 10000 and 10001 ms: only the
\* longer one of each pair is returned
C14_Witness ==
    /\ SessionsDone /\ ActivityDone
    /\ Len(ReconstructedNow) = 2
    /\ ReconstructedNow[1].durationMs = 60000
    /\ appSessions = <<[startTime |-> 60000, endTime |-> 120001,
                        durationMs |-> 60001, isOngoing |-> FALSE]>>
    /\ Len(ActivityClusters) = 2
    /\ ClusterSpan(ActivityClusters[1]) = 10000
    /\ Len(activitySessions) = 1
    /\ activitySessions[1].startTime = 130000
    /\ activitySessions[1].totalDuration = 10001

RECURSIVE Flatten(_)
Flatten(ss) == IF ss = <<>> THEN <<>> ELSE ss[1] \o Flatten(Tail(ss))

\* C15: consecutive events of the sorted stream are in the same cluster exactly
\* when their timestamps differ by less than 120000 ms; clusters are maximal
\* contiguous runs and every event is in exactly one cluster.
C15_ClusterGap ==
    ActivityDone =>
        LET evs == ActivityEvents
            cl == ActivityClusters
            kept == SelectSeq(cl, LAMBDA c : ClusterSpan(c) > 10000)
        IN /\ Flatten(cl) = evs
           /\ \A c \in 1..Len(cl) :
                 /\ Len(cl[c]) >= 1
                 /\ \A k \in 1..(Len(cl[c]) - 1) :
                       cl[c][k + 1].timestamp - cl[c][k].timestamp < 120000
           /\ \A c \in 1..(Len(cl) - 1) :
                 cl[c + 1][1].timestamp - cl[c][Len(cl[c])].timestamp >= 120000
           /\ Len(activitySessions) = Len(kept)
           /\ \A j \in 1..Len(kept) :
                 ThreadTimes(activitySessions[Len(kept) + 1 - j]) = ClusterTimes(kept[j])

\* events at 10001, 130000 and 250000: the first two, 119999 ms apart, form one
\* session; the third, 120000 ms after the second, is not part of it
C15_Witness ==
    /\ ActivityDone
    /\ ClusterTimes(ActivityEvents) = <<10001, 130000, 250000>>
    /\ Len(activitySessions) = 1
    /\ ThreadTimes(activitySessions[1]) = <<10001, 130000>>
    /\ activitySessions[1].totalDuration = 119999

ThreadNames(s) == {s.thread[k].appName : k \in 1..Len(s.thread)}

NameCount(s, n) == Cardinality({k \in 1..Len(s.thread) : s.thread[k].appName = n})

\* the app names with the largest number of events in the session's cluster
TopNames(s) ==
    {n \in ThreadNames(s) : \A m \in ThreadNames(s) : NameCount(s, m) <= NameCount(s, n)}

FirstOccurrence(s, n) ==
    CHOOSE k \in 1..Len(s.thread) :
        /\ s.thread[k].appName = n
        /\ \A j \in 1..(k - 1) : s.thread[j].appName # n

DominantBasics(s) ==
    /\ s.dominantApp.name \in TopNames(s)
    /\ s.dominantApp.usage = NameCount(s, s.dominantApp.name)
    /\ \E k \in 1..Len(s.thread) :
          /\ s.thread[k].appName = s.dominantApp.name
          /\ s.thread[k].pkg = s.dominantApp.pkg

MatchesAny(name, keywords) == \E k \in keywords : Includes(ToLowerCase(name), k)

\* C17: the category is Game when the dominant app's lower-cased name contains a
\* Game keyword, else Social when it contains a Social keyword, else Productivity
\* when it contains a Productivity keyword, else General.
C17_CategoryPrecedence ==
    ActivityDone =>
        \A j \in 1..Len(activitySessions) :
            LET s == activitySessions[j]
                game == MatchesAny(s.dominantApp.name, GameKeywords)
                social == MatchesAny(s.dominantApp.name, SocialKeywords)
                productivity == MatchesAny(s.dominantApp.name, ProductivityKeywords)
            IN /\ (s.category = "Game") <=> game
               /\ (s.category = "Social") <=> (~game /\ social)
               /\ (s.category = "Productivity") <=> (~game /\ ~social /\ productivity)
               /\ (s.category = "General") <=> (~game /\ ~social /\ ~productivity)

\* "CodMail" contains a Game and a Productivity keyword and is categorized Game
C17_Witness ==
    /\ ActivityDone
    /\ Len(activitySessions) = 1
    /\ activitySessions[1].dominantApp.name = CodMail
    /\ MatchesAny(CodMail, GameKeywords) /\ MatchesAny(CodMail, ProductivityKeywords)
    /\ activitySessions[1].category = "Game"

----------------------------------------------------------------------------
(* Properties of the dashboard's empty-day and device-enumeration handling *)

\* C18: when the fetch for the selected (device, date) returns no documents, the
\* dashboard ends with usageStats = null, deviceStats = null, an empty error
\* message and loading = false, whatever was displayed for the previous key.
C18_EmptyDay ==
    [][ \A i \in 1..Len(inflight) :
          (FetchDataResolved(i) /\ inflight[i] = SelectedKey /\ store[inflight[i]] = <<>>)
          => /\ usageStats' = Null
             /\ deviceStats' = Null
             /\ error' = NoError
             /\ loading' = FALSE
      ]_vars

\* the locally cached identifier list, empty when nothing is cached
CachedIds == IF savedIds = NoSavedIds THEN <<>> ELSE savedIds

\* C19: when listing devices fails, the device list becomes the locally cached
\* identifier list, a non-empty error message is published, and the failure handler
\* does not modify usageStats or deviceStats.
C19_DeviceFetchFallback ==
    [][ FetchDevicesRejected
          => /\ devices' = CachedIds
             /\ error' # NoError
             /\ UNCHANGED <<usageStats, deviceStats>>
      ]_vars

\* the listing failed after the persisted selection's data was shown: the cached
\* list is displayed with the error, the reconstructed usage is still there
C19_Witness ==
    /\ devicesFetch = "failed"
    /\ error = DeviceFetchError
    /\ devices = <<"d2", "d1">> /\ savedIds = devices
    /\ inflight = <<>>
    /\ usageStats # Null /\ deviceStats # Null

----------------------------------------------------------------------------
(* Liveness of the detail pages *)

\* C20: on both detail pages, once a subscription is started, loading eventually
\* becomes false (or the page is disposed), whether the store delivers a snapshot
\* or reports a failure.
C20_LoadingEnds ==
    /\ (appParams # Null /\ appLoading) ~> (~appLoading \/ appParams = Null)
    /\ (activityParams # Null /\ activityLoading)
          ~> (~activityLoading \/ activityParams = Null)

----------------------------------------------------------------------------
(* Order of delivery of the day's documents *)

\* the bijections of 1..n
Orders(n) ==
    {p \in [1..n -> 1..n] : \A i, j \in 1..n : i # j => p[i] # p[j]}

\* the same documents enumerated in another order
Reordered(docs, p) == [i \in 1..Len(docs) |-> docs[p[i]]]

\* C21: for any two enumeration orders of the same documents (equal timestamps
\* included), the published usageStats and deviceStats are identical: what the
\* fetch published equals what it publishes for every reordering of the documents.
C21_OrderIndependence ==
    FetchDone =>
        \A p \in Orders(Len(FetchedDocs)) :
            /\ usageStats = PublishedUsage(Reordered(FetchedDocs, p))
            /\ deviceStats = PublishedDevice(Reordered(FetchedDocs, p))

----------------------------------------------------------------------------
(* Order of the returned lists *)

\* C22: in every list the Session Reconstructor returns, sessions are most recent
\* first and do not overlap: for consecutive sessions s (listed first) and t (listed
\* next), t is completed, t.startTime <= s.startTime and t.endTime <= s.startTime.
C22_SessionOrder ==
    SessionsDone =>
        \A i \in 1..(Len(appSessions) - 1) :
            LET s == appSessions[i]
                t == appSessions[i + 1]
            IN /\ t.startTime <= s.startTime
               /\ t.endTime # NullTime
               /\ t.endTime <= s.startTime

\* today, read at 240001: the session still open since 120001 is listed before the
\* session [0, 120001] that its open closed
C22_Witness ==
    /\ SessionsDone
    /\ appSessions = <<[startTime |-> 120001, endTime |-> NullTime,
                        durationMs |-> 120000, isOngoing |-> TRUE],
                       [startTime |-> 0, endTime |-> 120001,
                        durationMs |-> 120001, isOngoing |-> FALSE]>>

\* C23: in every list the Activity Clusterer returns, sessions are most recent
\* first and separated by at least the gap threshold: for consecutive sessions s
\* (listed first) and t (listed next), s.startTime - t.endTime >= 120000; so the
\* session ids (the numerals of the start timestamps) are pairwise distinct.
C23_ActivityOrder ==
    ActivityDone =>
        /\ \A i \in 1..(Len(activitySessions) - 1) :
              activitySessions[i].startTime - activitySessions[i + 1].endTime >= 120000
        /\ \A i, j \in 1..Len(activitySessions) :
              i # j => activitySessions[i].id # activitySessions[j].id

\* clusters [0, 10001] and [130001, 250000], exactly 120000 ms apart, delivered
\* latest first and listed latest first
C23_Witness ==
    /\ ActivityDone
    /\ Len(activitySessions) = 2
    /\ activitySessions[1].startTime = 130001
    /\ activitySessions[2].endTime = 10001
    /\ activitySessions[1].id = <<"1", "3", "0", "0", "0", "1">>
    /\ activitySessions[2].id = <<"0">>

----------------------------------------------------------------------------
(* The walk over the events of the app detail page *)

\* the open pending when event k is met: the last open/close event before k
PendingOpenBefore(evs, k) ==
    evs[CHOOSE j \in 1..(k - 1) :
            /\ evs[j].eventType \in {"APP_OPENED", "APP_CLOSED"}
            /\ \A i \in (j + 1)..(k - 1) : evs[i].eventType \notin {"APP_OPENED", "APP_CLOSED"}]

\* C24: when an APP_OPENED at t2 is met while an open at t1 is pending, the closed
\* session [t1, t2] with durationMs = t2 - t1 and isOngoing = false is emitted and
\* the new event becomes the one pending open; the session is returned when it is
\* longer than a minute.
C24_DanglingOpen ==
    SessionsDone =>
        LET evs == TargetEvents
        IN \A k \in 1..Len(evs) :
              (evs[k].eventType = "APP_OPENED" /\ PendingBefore(evs, k)) =>
                  LET t1 == PendingOpenBefore(evs, k).timestamp
                      t2 == evs[k].timestamp
                      closed == [startTime |-> t1, endTime |-> t2,
                                 durationMs |-> t2 - t1, isOngoing |-> FALSE]
                  IN /\ WalkPrefix(evs, k)[1] = Append(WalkPrefix(evs, k - 1)[1], closed)
                     /\ WalkPrefix(evs, k - 1)[2] = PendingOpenBefore(evs, k)
                     /\ WalkPrefix(evs, k)[2] = evs[k]
                     /\ (t2 - t1 > 60000) =>
                            \E i \in 1..Len(appSessions) : appSessions[i] = closed

\* opens at 0 and 120001, then a close at 120001: the second open closes the first
\* session at 120001, its own session of 0 ms is dropped
C24_Witness ==
    /\ SessionsDone
    /\ EventTypes(TargetEvents) = <<"APP_OPENED", "APP_OPENED", "APP_CLOSED">>
    /\ ClusterTimes(TargetEvents) = <<0, 120001, 120001>>
    /\ appSessions = <<[startTime |-> 0, endTime |-> 120001,
                        durationMs |-> 120001, isOngoing |-> FALSE]>>

----------------------------------------------------------------------------
(* The thread of an activity session *)

\* the events of the day that fall within the session, in chronological order
EventsWithin(s) ==
    SelectSeq(ActivityEvents,
              LAMBDA e : s.startTime <= e.timestamp /\ e.timestamp <= s.endTime)

RECURSIVE SumDurations(_)
SumDurations(thread) ==
    IF Len(thread) = 0 THEN 0
    ELSE thread[1].durationMs + SumDurations(Tail(thread))

\* C25: for every returned ActivitySession the thread has exactly one segment per
\* event of the cluster, in chronological order with idx equal to its (0-based)
\* position; each segment's durationMs is the next event's timestamp minus its own,
\* 0 for the last segment, so the durations sum to endTime - startTime.
C25_ThreadConstruction ==
    ActivityDone =>
        \A j \in 1..Len(activitySessions) :
            LET s == activitySessions[j]
                c == EventsWithin(s)
                n == Len(s.thread)
            IN /\ n = Len(c)
               /\ \A k \in 1..n :
                     /\ s.thread[k].idx = k - 1
                     /\ s.thread[k].timestamp = c[k].timestamp
                     /\ s.thread[k].pkg = c[k].packageName
                     /\ s.thread[k].appName = c[k].appName
                     /\ s.thread[k].durationMs =
                           IF k < n THEN c[k + 1].timestamp - c[k].timestamp ELSE 0
               /\ \A k \in 1..(n - 1) : s.thread[k].timestamp <= s.thread[k + 1].timestamp
               /\ SumDurations(s.thread) = s.endTime - s.startTime

\* events at 0, 10001 and 130000 in one cluster: segments of 10001, 119999 and 0 ms
C25_Witness ==
    /\ ActivityDone
    /\ Len(activitySessions) = 1
    /\ ThreadTimes(activitySessions[1]) = <<0, 10001, 130000>>
    /\ [k \in 1..3 |-> activitySessions[1].thread[k].durationMs] = <<10001, 119999, 0>>
    /\ [k \in 1..3 |-> activitySessions[1].thread[k].idx] = <<0, 1, 2>>
    /\ activitySessions[1].endTime - activitySessions[1].startTime = 130000

----------------------------------------------------------------------------
(* Events of unrecognized type *)

\* the day's documents with every event that is neither an open nor a close removed
RecognizedOnly(docs) ==
    [i \in 1..Len(docs) |->
        IF docs[i].id = "events_" /\ "events" \in DOMAIN docs[i].data
        THEN [docs[i] EXCEPT !.data.events =
                 SelectSeq(@, LAMBDA e : e.eventType \in {"APP_OPENED", "APP_CLOSED"})]
        ELSE docs[i]]

\* C26: for every event stream, the Session Reconstructor returns the same session
\* list as for the stream with all events whose type is neither APP_OPENED nor
\* APP_CLOSED removed.
C26_UnknownEventsIgnored ==
    SessionsDone =>
        appSessions = PublishedSessions(
                          RecognizedOnly(store[<<appParams.deviceId, appParams.date>>]),
                          appParams.packageName, appParams.date, now)

\* an open at 0, a SCREEN_ON at 60000 and a close at 120001: the one session
\* [0, 120001], as if the SCREEN_ON were not there
C26_Witness ==
    /\ SessionsDone
    /\ EventTypes(TargetEvents) = <<"APP_OPENED", "UNKNOWN", "APP_CLOSED">>
    /\ ClusterTimes(TargetEvents) = <<0, 60000, 120001>>
    /\ appSessions = <<[startTime |-> 0, endTime |-> 120001,
                        durationMs |-> 120001, isOngoing |-> FALSE]>>

----------------------------------------------------------------------------
(* A day with a single valid snapshot *)

----------------------------------------------------------------------------
(* The loading flag of the dashboard *)

\* C28: in every reachable state of the dashboard, loading is true as long as a
\* fetch for the currently selected key has not completed, and it is false once no
\* fetch is in flight.
C28_LoadingTracksFetch ==
    /\ (\E i \in 1..Len(inflight) : inflight[i] = SelectedKey) => loading
    /\ (inflight = <<>>) => ~loading

----------------------------------------------------------------------------
(* The device list of the dashboard *)

\* C29: once listing devices has failed and its error message is set, a message
\* remains set in every later state until the user changes the selected device or
\* date, including when the fallback selected the first cached device and the
\* data fetch for it starts.
C29_DeviceErrorVisible ==
    [][ (/\ devicesFetch = "failed"
         /\ error = DeviceFetchError
         /\ selectedDevice' = selectedDevice
         /\ selectedDate' = selectedDate)
        => error' # NoError
      ]_vars

NoDuplicates(ids) == \A i, j \in 1..Len(ids) : i # j => ids[i] # ids[j]

\* C30: after the startup merge and after any sequence of add-device operations,
\* the device list and the persisted identifier list contain each identifier at
\* most once.
C30_NoDuplicateDevices ==
    /\ NoDuplicates(devices)
    /\ NoDuplicates(CachedIds)

====
